---- MODULE Spec2Model ----
(***************************************************************************)
(* Finetuning Torchvision Models (finetuning_torchvision_models notebook). *)
(* The notebook is a linear script: the "Inputs" cell, initialize_model,   *)
(* the optimizer cell, then train_model.  The state below is the script's  *)
(* globals, the locals of train_model while it runs, and a log of the      *)
(* library calls train_model makes (forward, loss, backward, step).        *)
(*                                                                         *)
(* Tensors are abstracted to integers: a parameter's data is one integer,  *)
(* an optimizer step subtracts one from it (so the parameters after each   *)
(* step differ from those after every other step), a loss value is kept    *)
(* multiplied by ten so that 0.4 * loss2 stays an integer, and an accuracy *)
(* is the pair <<corrects, dataset length>>.                               *)
(*                                                                         *)
(* The notebook's last cell trains a second, non-pretrained model with the *)
(* same train_model; NotebookSpec follows both runs, Spec the first one.   *)
(*                                                                         *)
(* The TensorBoard profiler tutorial (tensorboard_profiler_tutorial        *)
(* notebook) is a second script with a state of its own; ProfSpec runs it. *)
(***************************************************************************)
EXTENDS Integers, Sequences, FiniteSets, TLC

(***************************************************************************)
(* Bounds of the model.                                                    *)
(***************************************************************************)
MaxEpochs == 2      \* num_epochs ranges over 0..MaxEpochs
MaxClasses == 2     \* num_classes is 1 or MaxClasses
TrainSize == 3      \* len(dataloaders['train'].dataset)
ValSize == 2        \* len(dataloaders['val'].dataset)
BatchSize == 2      \* batch_size of both dataloaders

MaxNotebookEpochs == 1  \* num_epochs ranges over 0..MaxNotebookEpochs when
                        \* both training runs are followed
MaxLoaderLen == 12  \* train_loader yields 0..MaxLoaderLen batches

Losses == {1, 2}    \* values criterion(outputs, labels) may return

(***************************************************************************)
(* Program constants.                                                      *)
(***************************************************************************)
ImagenetClasses == 1000
NotebookNumClasses == 2     \* num_classes = 2 of the Inputs cell
SqueezenetInChannels == 512
AuxWeightTenths == 4        \* the 0.4 of loss1 + 0.4*loss2, in tenths
DefaultInputSize == 224
InceptionInputSize == 299
ScheduleWait == 1           \* torch.profiler.schedule(wait=1, warmup=1,
ScheduleWarmup == 1         \*                         active=3, repeat=2)
ScheduleActive == 3
ScheduleRepeat == 2

Families == {"resnet", "alexnet", "vgg", "squeezenet", "densenet", "inception"}
ModelNames == Families \cup {"mobilenet"}
\* variant: the list is ['val', 'train']
PhasesValFirst == <<"val", "train">>

Phases == <<"train", "val">>

VARIABLES
    pc,                 \* position in the script
    model_name, num_classes, feature_extract, num_epochs,   \* the Inputs cell
    model_ft, input_size,       \* result of initialize_model
    params_to_update,           \* the parameter list of optimizer_ft
    is_inception,               \* argument of train_model
    val_acc_history, best_model_wts, best_acc,   \* locals of train_model
    epoch, phase, batch, running_loss, running_corrects,
    epoch_metrics,      \* epoch_loss and epoch_acc: of the phase that ended last
    last,               \* what the most recent batch iteration did
    calls,              \* number of optimizer.step / auxiliary-loss calls per phase
    epochs_done,        \* per finished epoch: model.state_dict() and the val
                        \* phase's running_corrects as they were at its end
    result,             \* what train_model returned
    dataloaders_dict,   \* the dataloaders of the Load Data cell
    printed,            \* the lines train_model has printed
    error,              \* the exception that ended the script, or "none"
    run,                \* which of the notebook's two training runs is on
    scratch_model,      \* the model of the scratch run
    scratch_params,     \* the parameter list of scratch_optimizer
    scratch_hist,       \* the history the scratch run returned
    \* the profiler tutorial
    tb_pc,              \* position in the profiling cell
    loader_len,         \* number of batches train_loader yields
    step,               \* the step of enumerate(train_loader)
    step_num,           \* the profiler's step counter
    current_action,     \* the profiler's current action
    events              \* calls made so far: train, prof.step, on_trace_ready

vars == <<pc, model_name, num_classes, feature_extract, num_epochs, model_ft,
          input_size, params_to_update, is_inception, val_acc_history,
          best_model_wts, best_acc, epoch, phase, batch, running_loss,
          running_corrects, epoch_metrics, last, calls, epochs_done, result,
          dataloaders_dict, printed, error,
          run, scratch_model, scratch_params, scratch_hist,
          tb_pc, loader_len, step, step_num, current_action, events>>

inputs == <<model_name, num_classes, feature_extract, num_epochs>>
loop == <<val_acc_history, best_model_wts, best_acc, epoch, phase, batch,
          running_loss, running_corrects, epoch_metrics, last, calls,
          epochs_done>>
scratch == <<run, scratch_model, scratch_params, scratch_hist>>
profiling == <<tb_pc, loader_len, step, step_num, current_action, events>>

None == [isNone |-> TRUE]
NoBatch == [phase |-> "none"]
NoMetrics == [phase |-> "none"]

(***************************************************************************)
(* torchvision models, as far as the notebook looks at them: the layers    *)
(* initialize_model replaces ("heads"), their parameters, and one          *)
(* parameter standing for everything before them.                          *)
(***************************************************************************)
HeadLayers(name) ==
    CASE name = "resnet" -> {"fc"}
      [] name = "alexnet" -> {"classifier.6"}
      [] name = "vgg" -> {"classifier.6"}
      [] name = "squeezenet" -> {"classifier.1"}
      [] name = "densenet" -> {"classifier"}
      [] name = "inception" -> {"AuxLogits.fc", "fc"}

BackboneLayers(name) ==
    CASE name = "resnet" -> {"conv1"}
      [] name = "alexnet" -> {"features.0"}
      [] name = "vgg" -> {"features.0"}
      [] name = "squeezenet" -> {"features.0"}
      [] name = "densenet" -> {"features.conv0"}
      [] name = "inception" -> {"Conv2d_1a_3x3.conv", "AuxLogits.conv0.conv"}

PretrainedInFeatures(name, layer) ==
    CASE name = "resnet" -> 512
      [] name = "alexnet" -> 4096
      [] name = "vgg" -> 4096
      [] name = "squeezenet" -> 512
      [] name = "densenet" -> 1024
      [] name = "inception" -> IF layer = "AuxLogits.fc" THEN 768 ELSE 2048

HasBatchNorm(name) == name \in {"resnet", "vgg", "densenet", "inception"}

LayerParams(layers) == layers \X {"weight", "bias"}

\* nn.Linear(in, out) / nn.Conv2d(in, out, ...): a fresh layer
NewLayer(in_features, out_features) ==
    [in_features |-> in_features, out_features |-> out_features]

\* a fresh nn.Parameter: requires_grad is True by default
NewParameter(data) == [data |-> data, requires_grad |-> TRUE]

\* models.<family>(pretrained=use_pretrained)
LoadModel(name, use_pretrained) ==
    [isNone |-> FALSE,
     layers |-> [l \in HeadLayers(name) |->
                    NewLayer(PretrainedInFeatures(name, l), ImagenetClasses)],
     params |-> [p \in LayerParams(BackboneLayers(name) \cup HeadLayers(name)) |->
                    NewParameter(IF use_pretrained THEN 1 ELSE 0)],
     num_classes |-> ImagenetClasses,
     has_bn |-> HasBatchNorm(name),
     num_batches_tracked |-> 0,
     training |-> TRUE]

\* variant: the helper leaves every flag as it was
set_parameter_requires_grad_noop(model, feature_extracting) == model

\* set_parameter_requires_grad(model, feature_extracting)
set_parameter_requires_grad(model, feature_extracting) ==
    IF feature_extracting
    THEN [model EXCEPT !.params =
            [p \in DOMAIN @ |-> [@[p] EXCEPT !.requires_grad = FALSE]]]
    ELSE model

\* variant: the layer is resized in place, its parameters keep their flags
ReplaceLayerKeepsFlags(model, layer, new) ==
    [model EXCEPT !.layers[layer] = new,
                  !.params = [p \in DOMAIN @ |->
                                IF p[1] = layer THEN [@[p] EXCEPT !.data = 0]
                                ELSE @[p]]]

\* model.<layer> = <new layer>: the old layer's parameters leave the model
\* and the new layer's fresh parameters take their names
ReplaceLayer(model, layer, new) ==
    [model EXCEPT !.layers[layer] = new,
                  !.params = [p \in DOMAIN @ |->
                                IF p[1] = layer THEN NewParameter(0) ELSE @[p]]]

\* num_ftrs = model_ft.<layer>.in_features ; model_ft.<layer> = nn.Linear(num_ftrs, num_classes)
ReshapeLinear(model, layer, classes) ==
    ReplaceLayer(model, layer, NewLayer(model.layers[layer].in_features, classes))

\* variant: the inception branch reshapes the primary net only
ReshapeLayersPrimaryOnly(name, model, classes) ==
    CASE name = "resnet" -> ReshapeLinear(model, "fc", classes)
      [] name = "alexnet" -> ReshapeLinear(model, "classifier.6", classes)
      [] name = "vgg" -> ReshapeLinear(model, "classifier.6", classes)
      [] name = "squeezenet" ->
            [ReplaceLayer(model, "classifier.1",
                          NewLayer(SqueezenetInChannels, classes))
                EXCEPT !.num_classes = classes]
      [] name = "densenet" -> ReshapeLinear(model, "classifier", classes)
      [] name = "inception" -> ReshapeLinear(model, "fc", classes)

\* variant: the squeezenet branch hardcodes the old layer's output width
ReshapeLayersSqueezenetOutWidth(name, model, classes) ==
    CASE name = "resnet" -> ReshapeLinear(model, "fc", classes)
      [] name = "alexnet" -> ReshapeLinear(model, "classifier.6", classes)
      [] name = "vgg" -> ReshapeLinear(model, "classifier.6", classes)
      [] name = "squeezenet" ->
            [ReplaceLayer(model, "classifier.1",
                          NewLayer(ImagenetClasses, classes))
                EXCEPT !.num_classes = classes]
      [] name = "densenet" -> ReshapeLinear(model, "classifier", classes)
      [] name = "inception" ->
            ReshapeLinear(ReshapeLinear(model, "AuxLogits.fc", classes),
                          "fc", classes)

\* the reshaping statements of each branch of initialize_model
ReshapeLayers(name, model, classes) ==
    CASE name = "resnet" -> ReshapeLinear(model, "fc", classes)
      [] name = "alexnet" -> ReshapeLinear(model, "classifier.6", classes)
      [] name = "vgg" -> ReshapeLinear(model, "classifier.6", classes)
      [] name = "squeezenet" ->
            [ReplaceLayer(model, "classifier.1",
                          NewLayer(SqueezenetInChannels, classes))
                EXCEPT !.num_classes = classes]
      [] name = "densenet" -> ReshapeLinear(model, "classifier", classes)
      [] name = "inception" ->
            ReshapeLinear(ReshapeLinear(model, "AuxLogits.fc", classes),
                          "fc", classes)

\* variant: every branch assigns 224
InputSizeAlways224(name) == DefaultInputSize

\* the input_size each branch assigns
InputSize(name) ==
    IF name = "inception" THEN InceptionInputSize ELSE DefaultInputSize

\* what exit() does depends on what runs the notebook: the interpreter's
\* exit() raises SystemExit; IPython's exit() asks the shell to stop,
\* returns, and the statements after it go on
ExitOutcomes == {"SystemExit", "returns"}

\* the if/elif chain reaches a branch that builds a model; the else branch
\* prints "Invalid model name, exiting..." and calls exit()
BranchFound(name) == name \in Families

\* variant: the helper is called after the layers are reshaped
initialize_model_freeze_last(name, classes, feature_extracting, use_pretrained) ==
    IF BranchFound(name)
    THEN [exit_called |-> FALSE,
          model_ft |-> set_parameter_requires_grad(
                          ReshapeLayers(name, LoadModel(name, use_pretrained),
                                        classes),
                          feature_extracting),
          input_size |-> InputSize(name)]
    ELSE [exit_called |-> TRUE, model_ft |-> None, input_size |-> 0]

\* initialize_model(model_name, num_classes, feature_extract, use_pretrained):
\* exit_called is TRUE when the else branch ran: the message is printed and
\* exit() is called; model_ft and input_size are what the return statement
\* hands back if exit() comes back
initialize_model(name, classes, feature_extracting, use_pretrained) ==
    IF BranchFound(name)
    THEN [exit_called |-> FALSE,
          model_ft |-> ReshapeLayers(name,
                          set_parameter_requires_grad(
                              LoadModel(name, use_pretrained), feature_extracting),
                          classes),
          input_size |-> InputSize(name)]
    ELSE [exit_called |-> TRUE, model_ft |-> None, input_size |-> 0]

\* variant: the list is model_ft.parameters() in both modes
ParamsToUpdateAll(model, feature_extracting) == DOMAIN model.params

\* the list handed to optim.SGD in the optimizer cell
ParamsToUpdate(model, feature_extracting) ==
    IF feature_extracting
    THEN {p \in DOMAIN model.params : model.params[p].requires_grad = TRUE}
    ELSE DOMAIN model.params

\* the values of the model's parameters and buffers at this moment
Snapshot(model) ==
    [data |-> [p \in DOMAIN model.params |-> model.params[p].data],
     num_batches_tracked |-> model.num_batches_tracked,
     shares_storage |-> FALSE]

\* model.state_dict(): parameter data and buffers; the tensors in the
\* dictionary share their storage with the model's own
StateDict(model) == [Snapshot(model) EXCEPT !.shares_storage = TRUE]

\* variant: the dictionary is kept as state_dict() returned it
DeepCopyOmitted(state_dict) == state_dict

\* copy.deepcopy(model.state_dict()): tensors with storage of their own
DeepCopy(state_dict) == [state_dict EXCEPT !.shares_storage = FALSE]

\* what a state dictionary holds when it is read while the model is `model`:
\* shared tensors show the model's current values
Tensors(state_dict, model) ==
    IF state_dict.shares_storage THEN Snapshot(model) ELSE state_dict

\* variant: the best weights are not loaded
LoadStateDictOmitted(model, wts) == model

\* model.load_state_dict(wts)
LoadStateDict(model, wts) ==
    [model EXCEPT !.params = [p \in DOMAIN @ |->
                        [@[p] EXCEPT !.data = Tensors(wts, model).data[p]]],
                  !.num_batches_tracked = Tensors(wts, model).num_batches_tracked]

(***************************************************************************)
(* The dataloaders: a dataset of n samples in batches of BatchSize, the    *)
(* last batch holding the remainder (drop_last is not set).                *)
(***************************************************************************)
DatasetLen(ph) == IF ph = "train" THEN TrainSize ELSE ValSize

NumBatches(ph) == (DatasetLen(ph) + BatchSize - 1) \div BatchSize

\* inputs.size(0) of the i-th batch, i in 1..NumBatches(ph)
BatchLen(ph, i) ==
    IF i * BatchSize <= DatasetLen(ph)
    THEN BatchSize
    ELSE DatasetLen(ph) - (i - 1) * BatchSize

(***************************************************************************)
(* The body of train_model's batch loop, piece by piece.                   *)
(***************************************************************************)
\* variant: gradient tracking is left on in both phases
GradEnabledAlways(ph) == TRUE

\* torch.set_grad_enabled(phase == 'train')
GradEnabled(ph) == ph = "train"

\* variant: the branch tests is_inception alone
UsesAuxOutputAnyPhase(inception, ph) == inception

\* if is_inception and phase == 'train'
UsesAuxOutput(inception, ph) == inception /\ ph = "train"

\* variant: the two losses are summed unweighted
Loss10PlainSum(inception, ph, loss1, loss2) ==
    IF UsesAuxOutput(inception, ph) THEN 10 * loss1 + 10 * loss2 ELSE 10 * loss1

\* loss = loss1 + 0.4*loss2, or loss = criterion(outputs, labels); times ten
Loss10(inception, ph, loss1, loss2) ==
    IF UsesAuxOutput(inception, ph)
    THEN 10 * loss1 + AuxWeightTenths * loss2
    ELSE 10 * loss1

\* variant: backward and step run in both phases
BackwardAndStepAnyPhase(ph) == TRUE

\* backward + optimize only if in training phase
BackwardAndStep(ph) == ph = "train"

\* variant: the optimizer steps before the backward pass
BatchOpsStepBeforeBackward(inception, ph) ==
    <<"zero_grad", "forward", "criterion">>
    \o (IF UsesAuxOutput(inception, ph) THEN <<"criterion_aux">> ELSE <<>>)
    \o (IF BackwardAndStep(ph) THEN <<"step", "backward">> ELSE <<>>)

\* the library calls of one batch iteration, in program order
BatchOps(inception, ph) ==
    <<"zero_grad", "forward", "criterion">>
    \o (IF UsesAuxOutput(inception, ph) THEN <<"criterion_aux">> ELSE <<>>)
    \o (IF BackwardAndStep(ph) THEN <<"backward", "step">> ELSE <<>>)

\* model(inputs): in training mode the batch-norm layers count the batch
Forward(model) ==
    IF model.training /\ model.has_bn
    THEN [model EXCEPT !.num_batches_tracked = @ + 1]
    ELSE model

\* optimizer.step(): SGD moves every listed parameter that has a gradient,
\* and backward() gives a gradient to the parameters that require one
OptimizerStep(model, params) ==
    [model EXCEPT !.params = [p \in DOMAIN @ |->
        IF p \in params /\ @[p].requires_grad
        THEN [@[p] EXCEPT !.data = @ - 1]
        ELSE @[p]]]

\* variant: the comparison is not strict
GreaterOrEqual(a, b) == a.num * b.den >= b.num * a.den

\* epoch_acc > best_acc, on accuracies num/den
Greater(a, b) == a.num * b.den > b.num * a.den

\* variant: every val phase replaces the best
IsNewBestEveryVal(ph, epoch_acc, best) == ph = "val"

\* if phase == 'val' and epoch_acc > best_acc
IsNewBest(ph, epoch_acc, best) == ph = "val" /\ Greater(epoch_acc, best)

\* variant: the sum is divided by the number of batches
EpochLossPerBatch(loss_sum, ph) == [num |-> loss_sum, den |-> NumBatches(ph)]

\* epoch_loss = running_loss / len(dataloaders[phase].dataset)
EpochLoss(loss_sum, ph) == [num |-> loss_sum, den |-> DatasetLen(ph)]

\* epoch_acc = running_corrects.double() / len(dataloaders[phase].dataset)
EpochAcc(corrects, ph) == [num |-> corrects, den |-> DatasetLen(ph)]

\* variant: the append is not guarded by the phase
AppendHistoryEveryPhase(history, ph, epoch_acc) == Append(history, epoch_acc)

\* if phase == 'val': val_acc_history.append(epoch_acc)
AppendHistory(history, ph, epoch_acc) ==
    IF ph = "val" THEN Append(history, epoch_acc) ELSE history

Occurrences(ops, op) == Cardinality({i \in DOMAIN ops : ops[i] = op})

(***************************************************************************)
(* The script.                                                             *)
(***************************************************************************)
NoCalls == [ph \in {"train", "val"} |-> [step |-> 0, aux |-> 0, forward |-> 0]]

\* variant: range(num_epochs - 1)
EpochsRemainOneLess(ep, n) == ep < n - 1

\* for epoch in range(num_epochs): the range is not exhausted
EpochsRemain(ep, n) == ep < n

\* a print call of train_model: which line, in which epoch and phase
Line(kind, ep, ph) == [kind |-> kind, epoch |-> ep, phase |-> ph]

\* variant: the status line is printed for the val phase only
StatusLineValOnly(ep, ph) ==
    IF ph = "val" THEN <<Line("status", ep, ph)>> ELSE <<>>

\* print('{} Loss: {:.4f} Acc: {:.4f}'.format(phase, epoch_loss, epoch_acc))
StatusLine(ep, ph) == <<Line("status", ep, ph)>>

\* variant: the exception is swallowed and the batch loop goes on
OnExceptionContinue(point) == "batch"

\* train_model has no try/except: an exception raised in the batch loop
\* leaves the function
OnException(point) == "failed"

\* the calls of one batch iteration that can raise, in program order: the
\* library calls of BatchOps and, around them, inputs.to(device) and
\* labels.to(device), torch.max(outputs, 1), loss.item() and torch.sum(...)
BodyCalls(inception, ph) ==
    LET ops == BatchOps(inception, ph)
        k == CHOOSE i \in 0..Len(ops) :
                /\ \A j \in (i + 1)..Len(ops) :
                      ops[j] \notin {"criterion", "criterion_aux"}
                /\ i > 0 => ops[i] \in {"criterion", "criterion_aux"}
    IN <<"to">> \o SubSeq(ops, 1, k) \o <<"max">>
       \o SubSeq(ops, k + 1, Len(ops)) \o <<"item", "sum">>

\* the calls of the iteration completed when the failure point raises; the
\* loader ("data") raises before any of them
OpsBefore(body, point) ==
    IF point = "data" THEN <<>>
    ELSE LET first == CHOOSE i \in DOMAIN body :
                         /\ body[i] = point
                         /\ \A j \in 1..(i - 1) : body[j] # point
         IN SubSeq(body, 1, first - 1)

\* the places of a batch iteration where an exception can be raised: the
\* loader and every call of the loop body
FailurePoints(inception, ph) ==
    {"data"} \cup {BodyCalls(inception, ph)[i] : i \in DOMAIN BodyCalls(inception, ph)}

\* the scratch cell has not been run
ScratchNotRun ==
    /\ run = "pretrained"
    /\ scratch_model = None
    /\ scratch_params = {}
    /\ scratch_hist = None

\* variant: the scratch run is handed model_ft
ModelArgAlwaysFt(r) == "model_ft"

\* the global passed as train_model's model argument in run r
ModelArg(r) == IF r = "scratch" THEN "scratch_model" ELSE "model_ft"

\* train_model's parameter `model`: the object the caller passed
Model == IF ModelArg(run) = "scratch_model" THEN scratch_model ELSE model_ft

\* a statement of train_model that changes the model changes the caller's
\* object, and no other
SetModel(m) ==
    IF ModelArg(run) = "scratch_model"
    THEN scratch_model' = m /\ UNCHANGED model_ft
    ELSE model_ft' = m /\ UNCHANGED scratch_model

\* the parameter list of train_model's optimizer argument
OptimizerParams == IF run = "scratch" THEN scratch_params ELSE params_to_update

\* variant: the argument is left out and the default False applies
IsInceptionArgOmitted(name) == FALSE

\* is_inception=(model_name=="inception")
IsInceptionArg(name) == name = "inception"

\* the profiler tutorial's cell has not been run
ProfilerIdle ==
    /\ tb_pc = "idle"
    /\ loader_len = 0
    /\ step = 0
    /\ step_num = 0
    /\ current_action = "NONE"
    /\ events = <<>>

\* the Inputs cell, num_classes drawn from class_counts and num_epochs
\* from 0..max_epochs
InputsCell(class_counts, max_epochs) ==
    /\ pc = "start"
    /\ model_name \in ModelNames
    /\ num_classes \in class_counts
    /\ feature_extract \in BOOLEAN
    /\ num_epochs \in 0..max_epochs
    /\ model_ft = None
    /\ input_size = 0
    /\ params_to_update = {}
    /\ is_inception = FALSE
    /\ val_acc_history = <<>>
    /\ best_model_wts = None
    /\ best_acc = [num |-> 0, den |-> 1]
    /\ epoch = 0
    /\ phase = "train"
    /\ batch = 0
    /\ running_loss = 0
    /\ running_corrects = 0
    /\ epoch_metrics = NoMetrics
    /\ last = NoBatch
    /\ calls = NoCalls
    /\ epochs_done = <<>>
    /\ result = None
    /\ dataloaders_dict = None
    /\ printed = <<>>
    /\ error = "none"
    /\ ScratchNotRun
    /\ ProfilerIdle

Init == InputsCell({1, MaxClasses}, MaxEpochs)

\* model_ft, input_size = initialize_model(model_name, num_classes,
\*                                          feature_extract, use_pretrained=True)
InitializeModel ==
    /\ pc = "start"
    /\ LET r == initialize_model(model_name, num_classes, feature_extract, TRUE)
       IN \E outcome \in ExitOutcomes :
            IF r.exit_called /\ outcome = "SystemExit"
            THEN /\ pc' = "exited"
                 /\ UNCHANGED <<model_ft, input_size>>
            ELSE /\ pc' = "load_data"
                 /\ model_ft' = r.model_ft
                 /\ input_size' = r.input_size
    /\ UNCHANGED <<inputs, params_to_update, is_inception, loop, result,
                   dataloaders_dict, printed, error, profiling, scratch>>

\* the Load Data cell: image_datasets and dataloaders_dict
LoadData ==
    /\ pc = "load_data"
    /\ dataloaders_dict' = [ph \in {"train", "val"} |->
                              [len |-> DatasetLen(ph), batch_size |-> BatchSize,
                               input_size |-> input_size]]
    /\ pc' = "optimizer"
    /\ UNCHANGED <<inputs, model_ft, input_size, params_to_update, is_inception,
                   loop, result, printed, error, profiling, scratch>>

\* the optimizer cell: model_ft = model_ft.to(device), which raises
\* AttributeError when model_ft is None; params_to_update,
\* optimizer_ft = optim.SGD(params_to_update, ...)
CreateOptimizer ==
    /\ pc = "optimizer"
    /\ IF model_ft.isNone
       THEN /\ error' = "AttributeError"
            /\ pc' = "failed"
            /\ UNCHANGED params_to_update
       ELSE /\ params_to_update' = ParamsToUpdate(model_ft, feature_extract)
            /\ pc' = "call_train"
            /\ UNCHANGED error
    /\ UNCHANGED <<inputs, model_ft, input_size, is_inception, loop, result,
                   dataloaders_dict, printed, profiling, scratch>>

\* train_model(model_ft, dataloaders_dict, criterion, optimizer_ft,
\*             num_epochs=num_epochs, is_inception=(model_name=="inception")):
\* the statements before the epoch loop
TrainModelEnter ==
    /\ pc = "call_train"
    /\ is_inception' = IsInceptionArg(model_name)
    /\ val_acc_history' = <<>>
    /\ best_model_wts' = DeepCopy(StateDict(Model))
    /\ best_acc' = [num |-> 0, den |-> 1]
    /\ epoch' = 0
    /\ pc' = "epoch"
    /\ UNCHANGED <<inputs, model_ft, input_size, params_to_update, phase, batch,
                   running_loss, running_corrects, epoch_metrics, last, calls, epochs_done,
                   result, dataloaders_dict, printed, error, profiling, scratch>>

\* for epoch in range(num_epochs): the epoch's two header lines are printed
\* and the epoch begins with the train phase
EpochStart ==
    /\ pc = "epoch"
    /\ EpochsRemain(epoch, num_epochs)
    /\ printed' = printed \o <<Line("epoch_header", epoch, "-"),
                               Line("rule", epoch, "-")>>
    /\ phase' = Phases[1]
    /\ pc' = "phase"
    /\ UNCHANGED <<inputs, model_ft, input_size, params_to_update, is_inception,
                   val_acc_history, best_model_wts, best_acc, epoch, batch,
                   running_loss, running_corrects, epoch_metrics, last, calls, epochs_done,
                   result, dataloaders_dict, error, profiling, scratch>>

\* for phase in ['train', 'val']: model.train() or model.eval(), counters
\* reset; epoch_loss and epoch_acc keep the values of the phase before
PhaseStart ==
    /\ pc = "phase"
    /\ SetModel([Model EXCEPT !.training = (phase = "train")])
    /\ running_loss' = 0
    /\ running_corrects' = 0
    /\ batch' = 1
    /\ pc' = "batch"
    /\ UNCHANGED <<inputs, input_size, params_to_update, is_inception,
                   val_acc_history, best_model_wts, best_acc, epoch, phase,
                   epoch_metrics, last, calls, epochs_done, result,
                   dataloaders_dict, printed, error, profiling, run,
                   scratch_params, scratch_hist>>

\* one iteration of: for inputs, labels in dataloaders[phase]
Batch ==
    /\ pc = "batch"
    /\ batch <= NumBatches(phase)
    /\ \E loss1 \in Losses,
          loss2 \in (IF UsesAuxOutput(is_inception, phase) THEN Losses ELSE {0}),
          corrects \in 0..BatchLen(phase, batch) :
         LET ops == BatchOps(is_inception, phase)
             loss == Loss10(is_inception, phase, loss1, loss2)
             forwarded == Forward(Model)
         IN /\ SetModel(IF Occurrences(ops, "step") > 0
                        THEN OptimizerStep(forwarded, OptimizerParams)
                        ELSE forwarded)
            /\ running_loss' = running_loss + loss * BatchLen(phase, batch)
            /\ running_corrects' = running_corrects + corrects
            /\ last' = [phase |-> phase, ops |-> ops,
                        grad_enabled |-> GradEnabled(phase),
                        size |-> BatchLen(phase, batch), corrects |-> corrects,
                        loss1 |-> loss1, loss2 |-> loss2, loss |-> loss]
            /\ calls' = [calls EXCEPT
                            ![phase].step = @ + Occurrences(ops, "step"),
                            ![phase].aux = @ + Occurrences(ops, "criterion_aux"),
                            ![phase].forward = @ + Occurrences(ops, "forward")]
    /\ batch' = batch + 1
    /\ UNCHANGED <<pc, inputs, input_size, params_to_update, is_inception,
                   val_acc_history, best_model_wts, best_acc, epoch, phase,
                   epoch_metrics, epochs_done, result, dataloaders_dict,
                   printed, error, profiling, run, scratch_params,
                   scratch_hist>>

\* a batch iteration in which the data iteration or a call of the loop body
\* raises: the calls before the failing one have run, the exception is not
\* handled in train_model
BatchFails ==
    /\ pc = "batch"
    /\ batch <= NumBatches(phase)
    /\ \E point \in FailurePoints(is_inception, phase) :
         LET ops == OpsBefore(BodyCalls(is_inception, phase), point)
             forwarded == IF Occurrences(ops, "forward") > 0
                          THEN Forward(Model) ELSE Model
         IN /\ error' = point
            /\ pc' = OnException(point)
            /\ SetModel(IF Occurrences(ops, "step") > 0
                        THEN OptimizerStep(forwarded, OptimizerParams)
                        ELSE forwarded)
            /\ calls' = [calls EXCEPT
                            ![phase].step = @ + Occurrences(ops, "step"),
                            ![phase].aux = @ + Occurrences(ops, "criterion_aux"),
                            ![phase].forward = @ + Occurrences(ops, "forward")]
            /\ IF Occurrences(ops, "item") > 0
               THEN \E loss1 \in Losses,
                       loss2 \in (IF UsesAuxOutput(is_inception, phase)
                                  THEN Losses ELSE {0}) :
                      running_loss' = running_loss
                          + Loss10(is_inception, phase, loss1, loss2)
                              * BatchLen(phase, batch)
               ELSE UNCHANGED running_loss
    /\ UNCHANGED <<inputs, input_size, params_to_update, is_inception,
                   val_acc_history, best_model_wts, best_acc, epoch, phase,
                   batch, running_corrects, epoch_metrics, last,
                   epochs_done, result, dataloaders_dict, printed, profiling,
                   run, scratch_params, scratch_hist>>

\* after the batch loop: epoch_loss, epoch_acc and the status line, the
\* best-model bookkeeping, and the step to the next phase or the next epoch
PhaseEnd ==
    /\ pc = "batch"
    /\ batch > NumBatches(phase)
    /\ LET epoch_loss == EpochLoss(running_loss, phase)
           epoch_acc == EpochAcc(running_corrects, phase)
       IN /\ epoch_metrics' = [phase |-> phase, loss |-> epoch_loss,
                                acc |-> epoch_acc]
          /\ IF IsNewBest(phase, epoch_acc, best_acc)
             THEN /\ best_acc' = epoch_acc
                  /\ best_model_wts' = DeepCopy(StateDict(Model))
             ELSE UNCHANGED <<best_acc, best_model_wts>>
          /\ val_acc_history' = AppendHistory(val_acc_history, phase, epoch_acc)
    /\ IF phase = Phases[1]
       THEN /\ phase' = Phases[2]
            /\ pc' = "phase"
            /\ printed' = printed \o StatusLine(epoch, phase)
            /\ UNCHANGED <<epoch, epochs_done>>
       ELSE /\ epoch' = epoch + 1
            /\ epochs_done' = Append(epochs_done, [wts |-> Snapshot(Model),
                                               val_corrects |-> running_corrects])
            /\ pc' = "epoch"
            /\ printed' = printed \o StatusLine(epoch, phase)
                                  \o <<Line("blank", epoch, "-")>>
            /\ UNCHANGED phase
    /\ UNCHANGED <<inputs, model_ft, input_size, params_to_update, is_inception,
                   batch, running_loss, running_corrects, last, calls, result,
                   dataloaders_dict, error, profiling, scratch>>

\* the epoch loop is exhausted: the two closing lines are printed,
\* model.load_state_dict(best_model_wts); return model, val_acc_history
TrainModelReturn ==
    /\ pc = "epoch"
    /\ ~EpochsRemain(epoch, num_epochs)
    /\ printed' = printed \o <<Line("complete", epoch, "-"),
                               Line("best", epoch, "-")>>
    /\ SetModel(LoadStateDict(Model, best_model_wts))
    /\ IF run = "scratch"
       THEN /\ scratch_hist' = [isNone |-> FALSE, hist |-> val_acc_history]
            /\ UNCHANGED result
       ELSE /\ result' = [isNone |-> FALSE,
                          model |-> Snapshot(LoadStateDict(Model, best_model_wts)),
                          hist |-> val_acc_history]
            /\ UNCHANGED scratch_hist
    /\ pc' = "done"
    /\ UNCHANGED <<inputs, input_size, params_to_update, is_inception, loop,
                   dataloaders_dict, error, profiling, run, scratch_params>>

\* the scratch cell up to the call of train_model:
\* scratch_model,_ = initialize_model(model_name, num_classes,
\*                        feature_extract=False, use_pretrained=False)
\* scratch_optimizer = optim.SGD(scratch_model.parameters(), ...)
\* the first call's locals are gone, and the logs start again for the second
ScratchInitialize ==
    /\ pc = "done"
    /\ run = "pretrained"
    /\ LET r == initialize_model(model_name, num_classes, FALSE, FALSE)
       IN /\ scratch_model' = r.model_ft
          /\ scratch_params' = DOMAIN r.model_ft.params
    /\ run' = "scratch"
    /\ val_acc_history' = <<>>
    /\ best_model_wts' = None
    /\ best_acc' = [num |-> 0, den |-> 1]
    /\ epoch' = 0
    /\ phase' = "train"
    /\ batch' = 0
    /\ running_loss' = 0
    /\ running_corrects' = 0
    /\ epoch_metrics' = NoMetrics
    /\ last' = NoBatch
    /\ calls' = NoCalls
    /\ epochs_done' = <<>>
    /\ printed' = <<>>
    /\ pc' = "call_train"
    /\ UNCHANGED <<inputs, model_ft, input_size, params_to_update, is_inception,
                   result, dataloaders_dict, error, scratch_hist, profiling>>

\* the steps of a run in which no library call raises
NextNoFailure ==
    \/ InitializeModel
    \/ LoadData
    \/ CreateOptimizer
    \/ TrainModelEnter
    \/ EpochStart
    \/ PhaseStart
    \/ Batch
    \/ PhaseEnd
    \/ TrainModelReturn

Next ==
    \/ NextNoFailure
    \/ BatchFails

Spec == Init /\ [][Next]_vars

\* the script runs on until it ends: every cell and every statement that
\* can run next does run, and nothing raises
FairSpec == Init /\ [][NextNoFailure]_vars /\ WF_vars(NextNoFailure)

\* the Inputs cell, with the notebook's num_classes
NotebookInit == InputsCell({NotebookNumClasses}, MaxNotebookEpochs)

\* the whole notebook: the pretrained run, then the scratch cell
NotebookNext ==
    \/ Next
    \/ ScratchInitialize

NotebookSpec == NotebookInit /\ [][NotebookNext]_vars

TypeOK ==
    /\ pc \in {"start", "exited", "load_data", "optimizer", "call_train", "epoch",
               "phase", "batch", "done", "failed"}
    /\ epoch \in 0..num_epochs
    /\ Len(val_acc_history) <= num_epochs

(***************************************************************************)
(* The TensorBoard profiler tutorial: the profiling cell.                  *)
(***************************************************************************)
\* variant: the last active step of a cycle is an ordinary RECORD step
ScheduleNeverSaves(k) ==
    LET num_steps == ScheduleWait + ScheduleWarmup + ScheduleActive
        mod_step == k % num_steps
    IN IF ScheduleRepeat > 0 /\ k >= ScheduleRepeat * num_steps THEN "NONE"
       ELSE IF mod_step < ScheduleWait THEN "NONE"
       ELSE IF mod_step < ScheduleWait + ScheduleWarmup THEN "WARMUP"
       ELSE "RECORD"

\* torch.profiler.schedule(wait=1, warmup=1, active=3, repeat=2): the action
\* of step k: skip, warm up, record, and on a cycle's last step record and save
Schedule(k) ==
    LET num_steps == ScheduleWait + ScheduleWarmup + ScheduleActive
        mod_step == k % num_steps
    IN IF ScheduleRepeat > 0 /\ k >= ScheduleRepeat * num_steps THEN "NONE"
       ELSE IF mod_step < ScheduleWait THEN "NONE"
       ELSE IF mod_step < ScheduleWait + ScheduleWarmup THEN "WARMUP"
       ELSE IF mod_step < num_steps - 1 THEN "RECORD"
       ELSE "RECORD_AND_SAVE"

\* variant: the loop stops after one cycle's worth of steps
StepLimitOneCycle == 1 + 1 + 3

\* if step >= (1 + 1 + 3) * 2: break
StepLimit == (1 + 1 + 3) * 2

\* a call of the profiling cell: which one, in which step of the loop, and
\* the profiler action in force while it was made
Event(op, k, action) == [op |-> op, step |-> k, action |-> action]

\* the trace becomes available when the profiler leaves a RECORD_AND_SAVE
\* step: on_trace_ready is called then
TraceReadyOnStep(prev, k) ==
    IF prev = "RECORD_AND_SAVE" THEN <<Event("on_trace_ready", k, prev)>> ELSE <<>>

\* leaving the with block while recording also hands the trace over
TraceReadyOnExit(prev, k) ==
    IF prev \in {"RECORD", "RECORD_AND_SAVE"}
    THEN <<Event("on_trace_ready", k, prev)>>
    ELSE <<>>

\* the finetuning notebook is not run
FinetuneIdle ==
    /\ pc = "idle"
    /\ model_name = "squeezenet"
    /\ num_classes = 2
    /\ feature_extract = TRUE
    /\ num_epochs = 0
    /\ model_ft = None
    /\ input_size = 0
    /\ params_to_update = {}
    /\ is_inception = FALSE
    /\ val_acc_history = <<>>
    /\ best_model_wts = None
    /\ best_acc = [num |-> 0, den |-> 1]
    /\ epoch = 0
    /\ phase = "train"
    /\ batch = 0
    /\ running_loss = 0
    /\ running_corrects = 0
    /\ epoch_metrics = NoMetrics
    /\ last = NoBatch
    /\ calls = NoCalls
    /\ epochs_done = <<>>
    /\ result = None
    /\ dataloaders_dict = None
    /\ printed = <<>>
    /\ error = "none"
    /\ ScratchNotRun

finetuning == <<pc, inputs, model_ft, input_size, params_to_update, is_inception,
                loop, result, dataloaders_dict, printed, error, scratch>>

\* before the profiling cell: train_loader, model, criterion and optimizer exist
ProfInit ==
    /\ FinetuneIdle
    /\ tb_pc = "with"
    /\ loader_len \in 0..MaxLoaderLen
    /\ step = 0
    /\ step_num = 0
    /\ current_action = "NONE"
    /\ events = <<>>

\* with torch.profiler.profile(schedule=..., on_trace_ready=...) as prof:
\* the profiler starts with the action of step 0
ProfEnter ==
    /\ tb_pc = "with"
    /\ step_num' = 0
    /\ current_action' = Schedule(0)
    /\ tb_pc' = "for"
    /\ UNCHANGED <<finetuning, loader_len, step, events>>

\* for step, batch_data in enumerate(train_loader): the loader yields the
\* next batch or is exhausted; if step >= (1 + 1 + 3) * 2: break
ForNext ==
    /\ tb_pc = "for"
    /\ tb_pc' = IF step < loader_len /\ ~(step >= StepLimit) THEN "train" ELSE "exit"
    /\ UNCHANGED <<finetuning, loader_len, step, step_num, current_action, events>>

\* train(batch_data)
Train ==
    /\ tb_pc = "train"
    /\ events' = Append(events, Event("train", step, current_action))
    /\ tb_pc' = "prof_step"
    /\ UNCHANGED <<finetuning, loader_len, step, step_num, current_action>>

\* prof.step(): the step counter advances, the schedule gives the next
\* action, and the transition may hand over the trace
ProfStep ==
    /\ tb_pc = "prof_step"
    /\ step_num' = step_num + 1
    /\ current_action' = Schedule(step_num + 1)
    /\ events' = Append(events, Event("prof.step", step, current_action))
                    \o TraceReadyOnStep(current_action, step)
    /\ step' = step + 1
    /\ tb_pc' = "for"
    /\ UNCHANGED <<finetuning, loader_len>>

\* the with block is left: the profiler stops
ProfExit ==
    /\ tb_pc = "exit"
    /\ events' = events \o TraceReadyOnExit(current_action, step)
    /\ tb_pc' = "done"
    /\ UNCHANGED <<finetuning, loader_len, step, step_num, current_action>>

ProfNext ==
    \/ ProfEnter
    \/ ForNext
    \/ Train
    \/ ProfStep
    \/ ProfExit

ProfSpec == ProfInit /\ [][ProfNext]_vars

(***************************************************************************)
(* Properties.                                                             *)
(***************************************************************************)
ModelBuilt == ~model_ft.isNone
Returned == pc = "done"
OptimizerBuilt == pc \in {"call_train", "epoch", "phase", "batch", "done"}

\* the parameters of the layers initialize_model substitutes for model_name
HeadParams == LayerParams(HeadLayers(model_name))
\* the parameters of model_ft whose requires_grad is True
Trainable == {p \in DOMAIN model_ft.params : model_ft.params[p].requires_grad}

\* the earliest index of a maximal entry of a non-empty accuracy history
FirstMax(h) ==
    CHOOSE i \in 1..Len(h) :
        /\ \A j \in 1..Len(h) : ~Greater(h[j], h[i])
        /\ \A j \in 1..(i - 1) : Greater(h[i], h[j])

InUnitInterval(a) == a.den > 0 /\ 0 <= a.num /\ a.num <= a.den

\* C1: after a run of N >= 1 epochs the returned parameters are those the
\* model had at the end of the epoch with the maximum recorded validation
\* accuracy, the earliest such epoch on ties.
C1_ReturnsFirstMaxEpoch ==
    (Returned /\ num_epochs >= 1) =>
        /\ result.model = epochs_done[FirstMax(result.hist)].wts
        /\ Snapshot(model_ft) = epochs_done[FirstMax(result.hist)].wts

\* C2: the history has one entry per completed validation phase, entry i is
\* the accuracy of epoch i's validation phase, every entry lies in [0,1],
\* and a completed run of N epochs returns exactly N entries.
C2_HistoryPerEpoch ==
    /\ Len(val_acc_history) = Len(epochs_done)
    /\ \A i \in 1..Len(val_acc_history) :
          /\ val_acc_history[i].num = epochs_done[i].val_corrects
          /\ val_acc_history[i].den = ValSize
          /\ InUnitInterval(val_acc_history[i])
    /\ Returned => /\ Len(result.hist) = num_epochs
                   /\ result.hist = val_acc_history

C2_Witness ==
    /\ Returned
    /\ num_epochs = 2
    /\ Len(result.hist) = 2
    /\ result.hist[1].num = ValSize
    /\ result.hist[2].num = 0

\* C3: with feature_extract=True the trainable parameters of the model
\* initialize_model returns are exactly those of the substituted final
\* layer(s); with feature_extract=False every parameter is trainable.
C3_TrainableSet ==
    ModelBuilt =>
        Trainable = (IF feature_extract THEN HeadParams ELSE DOMAIN model_ft.params)

C3_Witness ==
    /\ pc = "optimizer"
    /\ feature_extract
    /\ model_name = "inception"
    /\ Cardinality(Trainable) = 4
    /\ Cardinality(DOMAIN model_ft.params) = 8

\* C4: the final classification layer of the returned model has output
\* width num_classes; for inception both the auxiliary and the primary head.
C4_OutputWidth ==
    ModelBuilt =>
        /\ DOMAIN model_ft.layers = HeadLayers(model_name)
        /\ \A l \in HeadLayers(model_name) :
              model_ft.layers[l].out_features = num_classes
        /\ model_name = "inception" =>
              /\ model_ft.layers["AuxLogits.fc"].out_features = num_classes
              /\ model_ft.layers["fc"].out_features = num_classes

C4_Witness ==
    /\ pc = "optimizer"
    /\ model_name = "inception"
    /\ num_classes = 2
    /\ model_ft.layers["AuxLogits.fc"].out_features = 2

\* C5: the returned input size is 299 for inception and 224 for the other
\* five families, whatever num_classes, feature_extract and use_pretrained.
C5_InputSize ==
    ModelBuilt =>
        /\ input_size = (IF model_name = "inception" THEN 299 ELSE 224)
        /\ \A classes \in 1..MaxClasses, fe \in BOOLEAN, pretrained \in BOOLEAN :
              initialize_model(model_name, classes, fe, pretrained).input_size
                  = input_size

C5_Witness ==
    /\ pc = "optimizer"
    /\ model_name = "inception"
    /\ input_size = 299

\* C6: with a model name that is none of the six, initialize_model fails
\* (the script stops in it) and no (model, input_size) pair reaches the
\* caller: the assignment of its result and the cells after it never run.
C6_UnknownFamilyFails ==
    (model_name \notin Families) =>
        /\ pc \in {"start", "exited"}
        /\ model_ft = None
        /\ input_size = 0
        /\ result = None

\* C7: a validation batch never calls optimizer.step and never computes the
\* auxiliary loss, also when is_inception is true; its loss is the primary
\* output's loss alone.
C7_ValNoStepNoAux ==
    /\ calls["val"].step = 0
    /\ calls["val"].aux = 0
    /\ last.phase = "val" =>
          /\ Occurrences(last.ops, "step") = 0
          /\ Occurrences(last.ops, "backward") = 0
          /\ Occurrences(last.ops, "criterion_aux") = 0
          /\ last.loss = 10 * last.loss1

C7_Witness ==
    /\ last.phase = "val"
    /\ is_inception
    /\ calls["train"].aux > 0

\* C8: with is_inception the loss of a training batch is
\* loss1 + 0.4 * loss2 (ten times it: 10*loss1 + 4*loss2); without it the
\* loss is the single output's loss and no auxiliary loss is computed.
C8_AuxWeightedLoss ==
    last.phase = "train" =>
        IF is_inception
        THEN /\ last.loss = 10 * last.loss1 + 4 * last.loss2
             /\ Occurrences(last.ops, "criterion_aux") = 1
        ELSE /\ last.loss = 10 * last.loss1
             /\ Occurrences(last.ops, "criterion_aux") = 0

C8_Witness ==
    /\ last.phase = "train"
    /\ is_inception
    /\ last.loss1 = 1
    /\ last.loss2 = 2
    /\ last.loss = 18

\* C9: with feature_extract=True every parameter outside the reshaped final
\* layer(s) keeps its initial value through all batches and epochs and the
\* return; with feature_extract=False the optimizer updates every parameter.
C9_BackboneUntouched ==
    ModelBuilt =>
        /\ feature_extract =>
              \A p \in (DOMAIN model_ft.params) \ HeadParams :
                  model_ft.params[p].data = LoadModel(model_name, TRUE).params[p].data
        /\ (~feature_extract /\ OptimizerBuilt) =>
              params_to_update = DOMAIN model_ft.params

C9_Witness ==
    /\ feature_extract
    /\ pc = "epoch"
    /\ epoch = 2
    /\ calls["train"].step = 2 * NumBatches("train")
    /\ \A p \in HeadParams : model_ft.params[p].data # 0
    /\ \E p \in DOMAIN model_ft.params : p \notin HeadParams

\* C10: the parameter list handed to SGD is exactly the set of parameters
\* with requires_grad true: the weights and biases of the reshaped layer(s)
\* when feature extracting, all model parameters when finetuning.
C10_OptimizerParams ==
    OptimizerBuilt =>
        /\ params_to_update = Trainable
        /\ feature_extract => params_to_update = HeadParams
        /\ ~feature_extract => params_to_update = DOMAIN model_ft.params

C10_Witness ==
    /\ pc = "call_train"
    /\ feature_extract
    /\ model_name = "inception"
    /\ params_to_update = {"AuxLogits.fc", "fc"} \X {"weight", "bias"}

\* ---- termination, phase order, failures, console output ----

\* train_model is running: entered, not returned, not failed
InTrainModel == pc \in {"epoch", "phase", "batch"}

\* the batches of phase ph processed when the loop is in epoch ep, its phase
\* ph has processed done batches of that epoch
BatchesSoFar(ph, ep, done) == ep * NumBatches(ph) + done

\* C11: with finite partitions and no failure, train_model always terminates,
\* and when it has returned it has run exactly num_epochs full epochs: every
\* train batch and every val batch of each of them, whatever the losses and
\* accuracies were
C11_TerminatesAfterNumEpochs ==
    /\ [](Returned =>
            /\ epoch = num_epochs
            /\ Len(epochs_done) = num_epochs
            /\ Len(val_acc_history) = num_epochs
            /\ calls["train"].forward = num_epochs * NumBatches("train")
            /\ calls["val"].forward = num_epochs * NumBatches("val"))
    /\ [](InTrainModel => epoch <= num_epochs)
    /\ ((pc = "call_train") ~> Returned)

C11_Witness ==
    /\ Returned
    /\ num_epochs = MaxEpochs
    /\ calls["val"].forward = MaxEpochs * NumBatches("val")
    /\ \E i \in DOMAIN val_acc_history : val_acc_history[i].num = 0

\* C12: in every epoch the train phase runs before the val phase: while the
\* val phase of epoch e runs, all train batches of epochs 0..e are processed;
\* while the train phase of epoch e runs, the val phases of epochs 0..e-1 are
\* complete and their accuracies recorded, and nothing of val epoch e has run
C12_TrainThenVal ==
    pc \in {"phase", "batch"} =>
        LET done == IF pc = "batch" THEN batch - 1 ELSE 0
        IN /\ Len(val_acc_history) = epoch
           /\ Len(epochs_done) = epoch
           /\ IF phase = "val"
              THEN /\ calls["train"].forward =
                         BatchesSoFar("train", epoch, NumBatches("train"))
                   /\ calls["val"].forward = BatchesSoFar("val", epoch, done)
              ELSE /\ calls["train"].forward = BatchesSoFar("train", epoch, done)
                   /\ calls["val"].forward = BatchesSoFar("val", epoch, 0)

C12_Witness ==
    /\ pc = "batch"
    /\ phase = "train"
    /\ epoch = 1
    /\ batch = 2
    /\ Len(val_acc_history) = 1
    /\ calls["val"].forward = NumBatches("val")

\* the exceptions that leave train_model from its batch loop
BatchFailures == {"data", "to", "zero_grad", "forward", "criterion",
                  "criterion_aux", "max", "backward", "step", "item", "sum"}

\* the failure points that come after the forward pass, after the
\* auxiliary criterion, after the optimizer step
AfterForward == {"criterion", "criterion_aux", "max", "backward", "step",
                 "item", "sum"}
AfterAux == {"max", "backward", "step", "item", "sum"}
AfterStep == {"item", "sum"}

\* train_model was left by an exception
FailedInTrainModel == pc = "failed" /\ error \in BatchFailures

\* C13: when the data iteration, the forward pass, the backward pass or any
\* other call of a batch raises, the run stops at that batch: nothing runs afterwards, the
\* counters stand where the failing batch found them, and no result is returned
C13_FailurePropagates ==
    error \in BatchFailures =>
        /\ pc = "failed"
        /\ result = None
        /\ ~ENABLED Next
        /\ batch \in 1..NumBatches(phase)
        /\ calls[phase].forward =
              BatchesSoFar(phase, epoch, batch - 1)
                  + (IF error \in AfterForward THEN 1 ELSE 0)
        /\ calls[phase].step =
              IF phase = "train"
              THEN BatchesSoFar(phase, epoch, batch - 1)
                       + (IF error \in AfterStep THEN 1 ELSE 0)
              ELSE 0
        /\ phase = "val" => error \notin {"criterion_aux", "backward", "step"}
        /\ Len(val_acc_history) = epoch

C13_Witness ==
    /\ error = "backward"
    /\ pc = "failed"
    /\ epoch = 1
    /\ batch = 2
    /\ result = None
    /\ calls["train"].forward = NumBatches("train") + 2
    /\ calls["train"].step = NumBatches("train") + 1

\* C14: with an unrecognized family the run never gets to training: no
\* dataloader is built, train_model is not entered and no batch is processed
C14_UnknownFamilyNoTraining ==
    model_name \notin Families =>
        /\ dataloaders_dict = None
        /\ pc \notin {"call_train", "epoch", "phase", "batch", "done"}
        /\ best_model_wts = None
        /\ calls = NoCalls
        /\ printed = <<>>
        /\ result = None

IsStatus(line) == line.kind = "status"

\* the loss/accuracy lines among the printed lines, in print order
StatusLines == SelectSeq(printed, IsStatus)

\* C15: the loss/accuracy lines are printed one per phase per epoch, the
\* train line of an epoch before its val line: the i-th line belongs to epoch
\* (i-1) \div 2 and to train for odd i, val for even i; a complete run has
\* printed 2 * num_epochs of them
C15_OneStatusLinePerPhase ==
    /\ \A i \in DOMAIN StatusLines :
         /\ StatusLines[i].epoch = (i - 1) \div 2
         /\ StatusLines[i].phase = IF i % 2 = 1 THEN "train" ELSE "val"
    /\ InTrainModel =>
         Len(StatusLines) = 2 * epoch + (IF pc # "epoch" /\ phase = "val" THEN 1 ELSE 0)
    /\ Returned => Len(StatusLines) = 2 * num_epochs

C15_Witness ==
    /\ Returned
    /\ num_epochs = MaxEpochs
    /\ Len(StatusLines) = 2 * MaxEpochs
    /\ StatusLines[1].phase = "train"
    /\ StatusLines[2].phase = "val"

\* ---- the profiler tutorial ----

IsTraceReady(e) == e.op = "on_trace_ready"

IsLoopCall(e) == e.op \in {"train", "prof.step"}

IsTrain(e) == e.op = "train"

\* the calls of on_trace_ready, in order
TraceReady == SelectSeq(events, IsTraceReady)

\* the calls the loop body makes, in order
LoopCalls == SelectSeq(events, IsLoopCall)

CycleLen == ScheduleWait + ScheduleWarmup + ScheduleActive

\* C16: in each cycle of five steps the first is skipped, the second warms
\* up, the next three are recorded; on_trace_ready is only ever called with
\* a recording action in force, at most twice, and in a run whose loader
\* yields at least ten batches exactly twice: when the fifth step of the
\* first cycle and the fifth step of the second cycle end
C16_TraceReadyTwice ==
    /\ \A i \in DOMAIN events :
         events[i].op = "train" =>
            LET k == events[i].step % CycleLen
            IN /\ k = 0 => events[i].action = "NONE"
               /\ k = 1 => events[i].action = "WARMUP"
               /\ k \in 2..4 => events[i].action \in {"RECORD", "RECORD_AND_SAVE"}
    /\ \A i \in DOMAIN TraceReady :
         TraceReady[i].action \in {"RECORD", "RECORD_AND_SAVE"}
    /\ Len(TraceReady) <= ScheduleRepeat
    /\ (tb_pc = "done" /\ loader_len >= StepLimit) =>
         TraceReady = <<Event("on_trace_ready", CycleLen - 1, "RECORD_AND_SAVE"),
                        Event("on_trace_ready", 2 * CycleLen - 1, "RECORD_AND_SAVE")>>

C16_Witness ==
    /\ tb_pc = "done"
    /\ loader_len = MaxLoaderLen
    /\ Len(TraceReady) = 2
    /\ TraceReady[2].step = 9

\* C17: the loop body calls train and then prof.step, once each per step;
\* the loop runs min(len(train_loader), 10) steps, and 10 is the number of
\* steps of the schedule's cycles, (wait + warmup + active) * repeat
C17_StepOncePerTrainingStep ==
    /\ \A i \in DOMAIN LoopCalls :
         /\ LoopCalls[i].step = (i - 1) \div 2
         /\ LoopCalls[i].op = IF i % 2 = 1 THEN "train" ELSE "prof.step"
    /\ Len(SelectSeq(events, IsTrain)) <= CycleLen * ScheduleRepeat
    /\ tb_pc \in {"for", "exit", "done"} => Len(LoopCalls) = 2 * step
    /\ tb_pc = "done" =>
         /\ step = IF loader_len < 10 THEN loader_len ELSE 10
         /\ Len(SelectSeq(events, IsTrain)) = step
    /\ StepLimit = CycleLen * ScheduleRepeat

C17_Witness ==
    /\ tb_pc = "done"
    /\ loader_len = MaxLoaderLen
    /\ step = 10
    /\ Len(LoopCalls) = 20

\* ---- best-model bookkeeping and the batch protocol ----

\* C18: the step that ends a val phase appends the epoch's accuracy to the
\* history, and replaces best accuracy and best snapshot exactly when the
\* accuracy is strictly greater than the best so far; every other step after
\* the entry of train_model, the end of a train phase included, leaves the
\* three unchanged
C18_BestReplacedIffStrictlyGreater ==
    [][ LET epoch_acc == [num |-> running_corrects, den |-> DatasetLen("val")]
            phase_ends == pc = "batch" /\ pc' \in {"phase", "epoch"}
        IN IF phase_ends /\ phase = "val"
           THEN /\ val_acc_history' = Append(val_acc_history, epoch_acc)
                /\ IF epoch_acc.num * best_acc.den > best_acc.num * epoch_acc.den
                   THEN /\ best_acc' = epoch_acc
                        /\ best_model_wts' = Snapshot(model_ft)
                   ELSE UNCHANGED <<best_acc, best_model_wts>>
           ELSE pc # "call_train" =>
                   UNCHANGED <<best_acc, best_model_wts, val_acc_history>>
      ]_vars

\* a second epoch has tied the first one's positive accuracy and the first
\* epoch's snapshot is still the stored one
C18_Witness ==
    /\ pc = "epoch"
    /\ epoch = 2
    /\ val_acc_history[1].num > 0
    /\ val_acc_history[2] = val_acc_history[1]
    /\ best_acc = val_acc_history[1]
    /\ best_model_wts = epochs_done[1].wts
    /\ best_model_wts # epochs_done[2].wts

IsProtocolOp(op) == op \in {"zero_grad", "forward", "backward", "step"}

\* C19: a train batch calls zero_grad, forward, backward, step, once each and
\* in this order, so the optimizer has stepped once per train batch
\* processed (a batch in which a call between the forward pass and the
\* step raised is not processed: the run ended there), num_epochs * (number of train batches) times in a
\* complete run
C19_OneBackwardOneStepPerBatch ==
    /\ last.phase = "train" =>
         SelectSeq(last.ops, IsProtocolOp) = <<"zero_grad", "forward", "backward", "step">>
    /\ calls["train"].step =
          calls["train"].forward
              - (IF FailedInTrainModel /\ phase = "train"
                       /\ error \in AfterForward \ AfterStep
                    THEN 1 ELSE 0)
    /\ Returned => calls["train"].step = num_epochs * NumBatches("train")

C19_Witness ==
    /\ Returned
    /\ num_epochs = MaxEpochs
    /\ last.phase = "val"
    /\ calls["train"].step = MaxEpochs * NumBatches("train")
    /\ calls["val"].step = 0

\* the parameter values the model had when train_model was entered
EntrySnapshot ==
    Snapshot(initialize_model(model_name, num_classes, feature_extract, TRUE).model_ft)

\* C20: what the stored snapshot holds is what the parameters were when it
\* was taken: at entry while no epoch has had a positive accuracy, else at
\* the end of the first epoch that reached the best accuracy; once an
\* optimizer step has been taken since, the live parameters differ from it
C20_SnapshotDecoupled ==
    (InTrainModel \/ FailedInTrainModel) =>
        /\ Tensors(best_model_wts, model_ft) =
              IF best_acc.num = 0 THEN EntrySnapshot
              ELSE epochs_done[FirstMax(val_acc_history)].wts
        /\ (calls["train"].step > 0 /\ best_acc.num = 0) =>
              Tensors(best_model_wts, model_ft).data # Snapshot(model_ft).data
        /\ (pc = "batch" /\ phase = "train" /\ batch > 1) =>
              Tensors(best_model_wts, model_ft).data # Snapshot(model_ft).data

C20_Witness ==
    /\ pc = "batch"
    /\ phase = "train"
    /\ epoch = 1
    /\ batch = 2
    /\ best_acc.num > 0
    /\ Tensors(best_model_wts, model_ft) = epochs_done[1].wts
    /\ Snapshot(model_ft) # epochs_done[1].wts

\* ---- initialize_model: order of freezing and reshaping ----

\* the parameters of model_ft whose requires_grad is False
Frozen == {p \in DOMAIN model_ft.params : ~model_ft.params[p].requires_grad}

\* C21: freezing runs before the final layers are replaced: in the model
\* initialize_model returns, the parameters of the new layer(s) are fresh and
\* trainable whether feature_extract is true or false, pretrained or not,
\* and the frozen parameters are all outside the new layer(s): every other
\* parameter when feature_extract is true, none when it is false
C21_NewLayersTrainable ==
    ModelBuilt =>
        /\ \A p \in HeadParams : model_ft.params[p].requires_grad
        /\ pc \in {"load_data", "optimizer", "call_train"} =>
              \A p \in HeadParams : model_ft.params[p] = NewParameter(0)
        /\ Frozen \cap HeadParams = {}
        /\ Frozen = IF feature_extract THEN (DOMAIN model_ft.params) \ HeadParams
                    ELSE {}
        /\ \A fe \in BOOLEAN, pretrained \in BOOLEAN :
              LET m == initialize_model(model_name, num_classes, fe, pretrained).model_ft
              IN \A p \in HeadParams : m.params[p].requires_grad

C21_Witness ==
    /\ pc = "load_data"
    /\ feature_extract
    /\ model_name = "resnet"
    /\ Frozen = LayerParams({"conv1"})
    /\ \A p \in LayerParams({"fc"}) : model_ft.params[p].requires_grad

\* C22: the new final layer has the input width of the layer it replaces:
\* 512 resnet, 4096 alexnet and vgg, 512 squeezenet (hardcoded in the
\* branch), 1024 densenet, 768 and 2048 for inception's two heads
C22_InputWidthKept ==
    ModelBuilt =>
        /\ \A l \in HeadLayers(model_name) :
              model_ft.layers[l].in_features =
                  LoadModel(model_name, TRUE).layers[l].in_features
        /\ model_name = "resnet" => model_ft.layers["fc"].in_features = 512
        /\ model_name \in {"alexnet", "vgg"} =>
              model_ft.layers["classifier.6"].in_features = 4096
        /\ model_name = "squeezenet" =>
              model_ft.layers["classifier.1"].in_features = 512
        /\ model_name = "densenet" =>
              model_ft.layers["classifier"].in_features = 1024
        /\ model_name = "inception" =>
              /\ model_ft.layers["AuxLogits.fc"].in_features = 768
              /\ model_ft.layers["fc"].in_features = 2048

C22_Witness ==
    /\ pc = "load_data"
    /\ model_name = "squeezenet"
    /\ model_ft.layers["classifier.1"] = NewLayer(512, num_classes)

\* ---- the batch loop: gradient tracking, statistics ----

\* C23: the forward pass of a batch runs with gradient tracking enabled
\* exactly when the phase is train; every val batch runs with it disabled
C23_GradOnlyInTrain ==
    /\ last.phase # "none" => (last.grad_enabled <=> last.phase = "train")
    /\ \A ph \in {"train", "val"} : GradEnabled(ph) <=> ph = "train"

C23_Witness ==
    /\ last.phase = "val"
    /\ ~last.grad_enabled
    /\ epoch = 1
    /\ pc = "batch"
    /\ batch = 2

\* C24: both counters are zero when a phase's batch loop starts; a batch
\* adds its loss times its size to running_loss and its number of correct
\* predictions to running_corrects; the loss and accuracy reported at the
\* end of the phase are the two counters divided by the partition's size,
\* and stay as reported through the batch loop of the next phase
C24_PhaseStatistics ==
    /\ [](pc = "batch" /\ batch = 1 => running_loss = 0 /\ running_corrects = 0)
    /\ [][ (pc = "batch" /\ pc' \in {"phase", "epoch"}) =>
              /\ epoch_metrics'.phase = phase
              /\ epoch_metrics'.loss = [num |-> running_loss,
                                        den |-> DatasetLen(phase)]
              /\ epoch_metrics'.acc = [num |-> running_corrects,
                                       den |-> DatasetLen(phase)]
              /\ InUnitInterval(epoch_metrics'.acc)
         ]_vars
    /\ [][ (pc' = "batch" /\ pc \in {"phase", "batch"}) =>
              epoch_metrics' = epoch_metrics ]_vars
    /\ [][ (pc = "batch" /\ batch' = batch + 1) =>
              /\ last'.size = BatchLen(phase, batch)
              /\ last'.corrects \in 0..last'.size
              /\ running_loss' = running_loss + last'.loss * last'.size
              /\ running_corrects' = running_corrects + last'.corrects
         ]_vars

C24_Witness ==
    /\ pc = "phase"
    /\ phase = "val"
    /\ epoch = 1
    /\ epoch_metrics.phase = "train"
    /\ epoch_metrics.acc = [num |-> 2, den |-> TrainSize]
    /\ epoch_metrics.loss = [num |-> 50, den |-> TrainSize]
    /\ last.corrects = 0

\* ---- best accuracy and the returned parameters ----

\* C25: once train_model is entered, best_acc is the maximum of 0 and the
\* accuracies recorded in val_acc_history, and no step lowers it
C25_BestAccIsRunningMax ==
    /\ []((InTrainModel \/ Returned \/ FailedInTrainModel) =>
            /\ \A i \in DOMAIN val_acc_history : ~Greater(val_acc_history[i], best_acc)
            /\ best_acc.num = 0 \/ \E i \in DOMAIN val_acc_history :
                                      best_acc = val_acc_history[i])
    /\ [][pc # "call_train" => ~Greater(best_acc, best_acc')]_vars

C25_Witness ==
    /\ pc = "epoch"
    /\ epoch = 2
    /\ Greater(val_acc_history[1], val_acc_history[2])
    /\ best_acc = val_acc_history[1]
    /\ val_acc_history[2].num > 0

\* C26: when no recorded accuracy is above 0 (an empty history included)
\* the returned model has the parameters it had at entry, however many
\* optimizer steps the run has taken
C26_NoPositiveAccuracyReturnsEntry ==
    (Returned /\ \A i \in DOMAIN result.hist : result.hist[i].num = 0) =>
        /\ result.model = EntrySnapshot
        /\ Snapshot(model_ft) = EntrySnapshot
        /\ calls["train"].step = num_epochs * NumBatches("train")

C26_Witness ==
    /\ Returned
    /\ num_epochs = MaxEpochs
    /\ \A i \in DOMAIN result.hist : result.hist[i].num = 0
    /\ calls["train"].step > 0
    /\ result.model = EntrySnapshot
    /\ \E i \in DOMAIN epochs_done : epochs_done[i].wts # EntrySnapshot

\* the value of updated parameter p after n optimizer steps
AfterSteps(p, n) == EntrySnapshot.data[p] - n

\* C27: no step of a val phase changes a parameter or a buffer of the
\* model, so the state recorded at the end of epoch e's val phase is the one
\* its train phase produced: that of e + 1 train phases' optimizer steps
C27_ValLeavesParameters ==
    /\ [][ (pc \in {"phase", "batch"} /\ phase = "val") =>
              Snapshot(model_ft') = Snapshot(model_ft) ]_vars
    /\ [](\A i \in DOMAIN epochs_done : \A p \in params_to_update :
              epochs_done[i].wts.data[p] = AfterSteps(p, i * NumBatches("train")))

C27_Witness ==
    /\ pc = "epoch"
    /\ epoch = 1
    /\ calls["val"].forward = NumBatches("val")
    /\ epochs_done[1].wts = Snapshot(model_ft)
    /\ epochs_done[1].wts # EntrySnapshot

\* ---- the notebook's two training runs ----

\* train_model has been entered in the current run
Entered == pc \in {"epoch", "phase", "batch", "done", "failed"} /\ ~Model.isNone

\* C28: in the pretrained run and in the scratch run alike, train_model's
\* is_inception is true exactly when the family is inception, that is when
\* the model it trains has the two heads and the input size is 299; a train
\* batch computes the auxiliary loss exactly then
C28_IsInceptionIffInception ==
    Entered =>
        /\ is_inception <=> model_name = "inception"
        /\ is_inception <=> DOMAIN Model.layers = {"AuxLogits.fc", "fc"}
        /\ is_inception <=> input_size = InceptionInputSize
        /\ last.phase = "train" =>
              (Occurrences(last.ops, "criterion_aux") = 1 <=> model_name = "inception")
        /\ calls["train"].aux =
              IF model_name = "inception"
              THEN calls["train"].forward
                      - (IF FailedInTrainModel /\ phase = "train"
                            /\ error \in AfterForward \ AfterAux
                         THEN 1 ELSE 0)
              ELSE 0

C28_Witness ==
    /\ run = "scratch"
    /\ pc = "batch"
    /\ model_name = "inception"
    /\ is_inception
    /\ last.phase = "train"
    /\ Occurrences(last.ops, "criterion_aux") = 1
    /\ DOMAIN scratch_model.layers = {"AuxLogits.fc", "fc"}

\* C29: the scratch run exists only once the pretrained run has returned,
\* it trains scratch_model, and no step of the scratch cell changes model_ft
\* or the history the pretrained run returned
C29_RunsInSequenceOnSeparateModels ==
    /\ [](run = "scratch" =>
            /\ ~result.isNone
            /\ Len(result.hist) = num_epochs
            /\ Snapshot(model_ft) = result.model
            /\ ~scratch_model.isNone)
    /\ [](run = "pretrained" => scratch_model = None /\ scratch_hist = None)
    /\ [][ (run' = "scratch") =>
              /\ pc = "done" \/ run = "scratch"
              /\ model_ft' = model_ft
              /\ result' = result ]_vars
    /\ [][ (run = "scratch" /\ pc = "batch" /\ batch' = batch + 1
              /\ phase = "train") =>
              Snapshot(scratch_model') # Snapshot(scratch_model) ]_vars

C29_Witness ==
    /\ run = "scratch"
    /\ pc = "done"
    /\ num_epochs = MaxNotebookEpochs
    /\ ~scratch_hist.isNone
    /\ scratch_hist.hist[1].num > 0
    /\ result.hist[1].num > 0
    /\ Snapshot(scratch_model) # Snapshot(model_ft)
    /\ Snapshot(model_ft) = result.model

====
